---- MODULE Spec2Model ----
(***************************************************************************)
(* Incremental delivery and playback pipeline of the HolisticaQuant web     *)
(* client: the timeline scheduler, the channel session and the HTTP         *)
(* fallback of ResearchLab.tsx and LearningStudio, and the streaming        *)
(* session of QAEngine.tsx.                                                 *)
(*                                                                          *)
(* Strings are sequences of one-character strings.  The content of an       *)
(* event may be absent (JavaScript undefined), which is UNDEFINED below.    *)
(***************************************************************************)
EXTENDS Integers, Sequences, FiniteSets, Bags, TLC

\* ------------------------------------------------------------------ bounds

\* Number of handleGenerate / handleSendMessage calls a behaviour may make.
MaxRequests == 2

\* Number of inbound channel messages delivered to one socket.
MaxMsgs == 2

\* Number of times one socket fires onerror.
MaxErrors == 1

\* Longest timeline content handed to pushTimelineEvent on its own.
MaxContentLen == 6

\* Length of the long contents: more than two thresholds, so that a content
\* gives three segments.
LongContentLen == 9

\* ResearchLab.tsx:83 sets TIMELINE_CHUNK_LENGTH = 540; the model keeps the
\* comparison and the slicing and scales the threshold to short strings.
TIMELINE_CHUNK_LENGTH == 4

\* QAEngine.tsx:636 truncates a segment body to max = 260 characters; scaled.
TruncateMax == 3

\* ----------------------------------------------------------------- strings

UNDEFINED == <<"undefined">>

NL == "\n"

IsWhitespace(c) == c \in {" ", NL}

\* JavaScript truthiness of an optional string: undefined and '' are falsy.
Truthy(s) == s # UNDEFINED /\ s # <<>>

RECURSIVE TrimStart(_)
TrimStart(s) ==
  IF s = <<>> THEN <<>>
  ELSE IF IsWhitespace(Head(s)) THEN TrimStart(Tail(s)) ELSE s

RECURSIVE TrimEnd(_)
TrimEnd(s) ==
  IF s = <<>> THEN <<>>
  ELSE IF IsWhitespace(s[Len(s)]) THEN TrimEnd(SubSeq(s, 1, Len(s) - 1)) ELSE s

\* String.prototype.trim
Trim(s) == TrimEnd(TrimStart(s))

\* String.prototype.slice(from, to) with 0-based, end-exclusive indices.
Slice(s, from, to) ==
  SubSeq(s, from + 1, IF to > Len(s) THEN Len(s) ELSE to)

\* Length of the run of newlines that starts at (1-based) position i.
RECURSIVE NewlineRun(_, _)
NewlineRun(s, i) ==
  IF i > Len(s) \/ s[i] # NL THEN 0 ELSE 1 + NewlineRun(s, i + 1)

\* content.split(/\n\n+/): cut at every maximal run of two or more newlines;
\* cur is the paragraph being collected, i the next position to read.
RECURSIVE SplitFrom(_, _, _)
SplitFrom(s, i, cur) ==
  IF i > Len(s) THEN <<cur>>
  ELSE IF NewlineRun(s, i) >= 2
       THEN <<cur>> \o SplitFrom(s, i + NewlineRun(s, i), <<>>)
       ELSE SplitFrom(s, i + 1, Append(cur, s[i]))

SplitParagraphs(s) == SplitFrom(s, 1, <<>>)

\* --------------------------------------------------------------- segmenter

\* The while loop advancing one character too far after each window
RECURSIVE HardSlice_Stride(_, _)
HardSlice_Stride(para, pointer) ==
  IF pointer < Len(para)
  THEN <<Trim(Slice(para, pointer, pointer + TIMELINE_CHUNK_LENGTH))>>
         \o HardSlice_Stride(para, pointer + TIMELINE_CHUNK_LENGTH + 1)
  ELSE <<>>

\* The while loop that hard-slices a paragraph longer than the threshold.
RECURSIVE HardSlice(_, _)
HardSlice(para, pointer) ==
  IF pointer < Len(para)
  THEN <<Trim(Slice(para, pointer, pointer + TIMELINE_CHUNK_LENGTH))>>
         \o HardSlice(para, pointer + TIMELINE_CHUNK_LENGTH)
  ELSE <<>>

\* flushBuffer pushing the buffer untrimmed
flushBuffer_NoTrim(segments, buffer) ==
  IF Trim(buffer) # <<>> THEN Append(segments, buffer) ELSE segments

\* flushBuffer: the segments after the buffer has been flushed.
flushBuffer(segments, buffer) ==
  IF Trim(buffer) # <<>> THEN Append(segments, Trim(buffer)) ELSE segments

\* One iteration of paragraphs.forEach; st = [segments, buffer].
SegmentStep(st, para, isLast) ==
  LET candidate == IF st.buffer # <<>> THEN st.buffer \o <<NL, NL>> \o para ELSE para
      afterPara ==
        IF Len(candidate) <= TIMELINE_CHUNK_LENGTH
        THEN [segments |-> st.segments, buffer |-> candidate]
        ELSE LET flushed == IF st.buffer # <<>>
                            THEN flushBuffer(st.segments, st.buffer)
                            ELSE st.segments
             IN IF Len(para) <= TIMELINE_CHUNK_LENGTH
                THEN [segments |-> flushed, buffer |-> para]
                ELSE [segments |-> flushed \o HardSlice(para, 0), buffer |-> <<>>]
  IN IF isLast /\ afterPara.buffer # <<>>
     THEN [segments |-> flushBuffer(afterPara.segments, afterPara.buffer), buffer |-> <<>>]
     ELSE afterPara

RECURSIVE SegmentLoop(_, _, _)
SegmentLoop(paragraphs, index, st) ==
  IF index > Len(paragraphs) THEN st
  ELSE SegmentLoop(paragraphs, index + 1,
                   SegmentStep(st, paragraphs[index], index = Len(paragraphs)))

\* The segments pushTimelineEvent computes for an oversized content.
Segments(content) ==
  SegmentLoop(SplitParagraphs(content), 1, [segments |-> <<>>, buffer |-> <<>>]).segments

\* ------------------------------------------------------------------- state

VARIABLES
  page,              \* which screen the component is
  mounted,           \* FALSE once the unmount cleanup has run
  reqLimit,          \* how many requests this behaviour may start (fixed by Init)
  nreq,              \* number of handleGenerate / handleSendMessage calls so far
  wsRef,             \* wsRef.current: 0 (null) or the request whose socket it holds
  tl,                \* the timeline refs and state of ResearchLab / LearningStudio
  isGenerating,      \* isGenerating (ResearchLab), isCalculating (LearningStudio), isTyping (QAEngine)
  apiResult,         \* apiResult (ResearchLab), taskResult (LearningStudio)
  metadataSnapshot,  \* metadataSnapshot (ResearchLab), metadata (LearningStudio)
  errorMessage,      \* errorMessage
  sess,              \* per request: the closure variables, its socket and its blocking call
  qa,                \* QAEngine: the assistant placeholder message and its pending timers
  last               \* history: the handler that ran last, with the flags it found

vars == <<page, mounted, reqLimit, nreq, wsRef, tl, isGenerating, apiResult,
          metadataSnapshot, errorMessage, sess, qa, last>>

\* Everything the program holds (all but the history variable).
progVars == <<page, mounted, wsRef, tl, isGenerating, apiResult,
              metadataSnapshot, errorMessage, qa,
              [r \in DOMAIN sess |-> [finalReceived |-> sess[r].finalReceived,
                                      fallbackTriggered |-> sess[r].fallbackTriggered,
                                      socket |-> sess[r].socket,
                                      http |-> sess[r].http,
                                      sent |-> sess[r].sent]]>>

Requests == 1 .. MaxRequests

Pages == {"ResearchLab", "LearningStudio", "QAEngine"}

TimelinePages == {"ResearchLab", "LearningStudio"}

\* ---------------------------------------------------------------- timeline

NoTitle == [name |-> "", cont |-> 0]

Title(name) == [name |-> name, cont |-> 0]

\* currentTimelineEvent = null
NoEvent == [id |-> 0, title |-> NoTitle, content |-> UNDEFINED]

\* typewriterRef.current = null
NoTimer == [kind |-> "none", index |-> 0, content |-> <<>>]

\* The callback armed with TIMELINE_SWITCH_DELAY_MS.
SwitchTimer == [kind |-> "switch", index |-> 0, content |-> <<>>]

\* The callback () => runTypewriter(index) armed with TIMEWRITER_INTERVAL_MS.
TypeTimer(index, content) == [kind |-> "type", index |-> index, content |-> content]

EmptyTimeline ==
  [timelineQueueRef |-> <<>>,
   timelineProcessingRef |-> FALSE,
   typewriterRef |-> NoTimer,
   timers |-> EmptyBag,
   currentTimelineEvent |-> NoEvent,
   timelineRenderedContent |-> <<>>,
   nextId |-> 1]

\* window.setTimeout(cb, ..) assigned to typewriterRef.current; timers is the
\* bag of callbacks the browser still holds.
ArmTimer(t, timer) ==
  [t EXCEPT !.typewriterRef = timer, !.timers = @ (+) SetToBag({timer})]

\* stopTypewriter forgetting the handle without clearTimeout
stopTypewriter_NoClear(t) ==
  [t EXCEPT !.typewriterRef = NoTimer]

\* if (typewriterRef.current) { clearTimeout(..); typewriterRef.current = null }
stopTypewriter(t) ==
  IF t.typewriterRef # NoTimer
  THEN [t EXCEPT !.timers = @ (-) SetToBag({t.typewriterRef}), !.typewriterRef = NoTimer]
  ELSE t

resetTimeline(t) ==
  [stopTypewriter(t) EXCEPT !.timelineQueueRef = <<>>,
                            !.timelineProcessingRef = FALSE,
                            !.currentTimelineEvent = NoEvent,
                            !.timelineRenderedContent = <<>>]

\* processTimelineQueue without the timelineProcessingRef test
processTimelineQueue_NoGuard(t) ==
  IF t.timelineQueueRef = <<>> THEN t
  ELSE LET nextEvent == Head(t.timelineQueueRef)
           t1 == [t EXCEPT !.timelineQueueRef = Tail(@),
                           !.timelineProcessingRef = TRUE,
                           !.currentTimelineEvent = nextEvent,
                           !.timelineRenderedContent = <<>>]
       IN IF ~Truthy(nextEvent.content)
          THEN ArmTimer(t1, SwitchTimer)
          ELSE ArmTimer(t1, TypeTimer(0, nextEvent.content))

\* processTimelineQueue taking the newest queued event instead of the oldest
processTimelineQueue_Lifo(t) ==
  IF t.timelineProcessingRef THEN t
  ELSE IF t.timelineQueueRef = <<>> THEN t
  ELSE LET nextEvent == t.timelineQueueRef[Len(t.timelineQueueRef)]
           t1 == [t EXCEPT !.timelineQueueRef = SubSeq(@, 1, Len(@) - 1),
                           !.timelineProcessingRef = TRUE,
                           !.currentTimelineEvent = nextEvent,
                           !.timelineRenderedContent = <<>>]
       IN IF ~Truthy(nextEvent.content)
          THEN ArmTimer(t1, SwitchTimer)
          ELSE ArmTimer(t1, TypeTimer(0, nextEvent.content))

\* processTimelineQueue giving an event without content no delay of its own
processTimelineQueue_NoFlash(t) ==
  IF t.timelineProcessingRef THEN t
  ELSE IF t.timelineQueueRef = <<>> THEN t
  ELSE LET nextEvent == Head(t.timelineQueueRef)
           t1 == [t EXCEPT !.timelineQueueRef = Tail(@),
                           !.timelineProcessingRef = TRUE,
                           !.currentTimelineEvent = nextEvent,
                           !.timelineRenderedContent = <<>>]
       IN IF ~Truthy(nextEvent.content)
          THEN [t1 EXCEPT !.timelineProcessingRef = FALSE]
          ELSE ArmTimer(t1, TypeTimer(0, nextEvent.content))

\* timelineQueueRef.current.shift() and the start of the reveal
processTimelineQueue(t) ==
  IF t.timelineProcessingRef THEN t
  ELSE IF t.timelineQueueRef = <<>> THEN t
  ELSE LET nextEvent == Head(t.timelineQueueRef)
           t1 == [t EXCEPT !.timelineQueueRef = Tail(@),
                           !.timelineProcessingRef = TRUE,
                           !.currentTimelineEvent = nextEvent,
                           !.timelineRenderedContent = <<>>]
       IN IF ~Truthy(nextEvent.content)
          THEN ArmTimer(t1, SwitchTimer)
          ELSE ArmTimer(t1, TypeTimer(0, nextEvent.content))

\* runTypewriter advancing without the switch delay after the last character
runTypewriter_NoDelay(t, index, content) ==
  LET t1 == [t EXCEPT !.timelineRenderedContent = Slice(content, 0, index + 1)]
  IN IF index + 1 < Len(content)
     THEN ArmTimer(t1, TypeTimer(index + 1, content))
     ELSE processTimelineQueue([t1 EXCEPT !.typewriterRef = NoTimer,
                                          !.timelineProcessingRef = FALSE])

\* runTypewriter revealing two characters per tick
runTypewriter_Double(t, index, content) ==
  LET t1 == [t EXCEPT !.timelineRenderedContent = Slice(content, 0, index + 2)]
  IN IF index + 2 < Len(content)
     THEN ArmTimer(t1, TypeTimer(index + 2, content))
     ELSE ArmTimer(t1, SwitchTimer)

\* runTypewriter(index) for the content the closure captured.
runTypewriter(t, index, content) ==
  LET t1 == [t EXCEPT !.timelineRenderedContent = Slice(content, 0, index + 1)]
  IN IF index + 1 < Len(content)
     THEN ArmTimer(t1, TypeTimer(index + 1, content))
     ELSE ArmTimer(t1, SwitchTimer)

\* The callback of the switch-delay timer.
switchCallback(t) ==
  processTimelineQueue([t EXCEPT !.typewriterRef = NoTimer,
                                 !.timelineProcessingRef = FALSE])

\* enqueue(chunkTitle, chunkContent): timelineQueueRef.current.push({...})
enqueue(t, title, content) ==
  [t EXCEPT !.timelineQueueRef = Append(@, [id |-> t.nextId, title |-> title, content |-> content]),
            !.nextId = @ + 1]

\* segments.forEach numbering the continuation titles from the ordinal
RECURSIVE enqueueSegments_Ordinal(_, _, _, _)
enqueueSegments_Ordinal(t, title, segments, idx) ==
  IF idx >= Len(segments) THEN t
  ELSE enqueueSegments_Ordinal(
         enqueue(t, [title EXCEPT !.cont = idx], segments[idx + 1]),
         title, segments, idx + 1)

\* segments.forEach((segment, idx) => enqueue(title + suffix, segment))
RECURSIVE enqueueSegments(_, _, _, _)
enqueueSegments(t, title, segments, idx) ==
  IF idx >= Len(segments) THEN t
  ELSE enqueueSegments(
         enqueue(t, [title EXCEPT !.cont = IF idx = 0 THEN 0 ELSE idx + 1], segments[idx + 1]),
         title, segments, idx + 1)

\* ResearchLab.pushTimelineEvent
pushTimelineEvent(t, title, content) ==
  processTimelineQueue(
    IF Truthy(content) /\ Len(content) > TIMELINE_CHUNK_LENGTH
    THEN enqueueSegments(t, title, Segments(content), 0)
    ELSE enqueue(t, title, content))

\* LearningStudio.pushTimelineEvent
pushTimelineEventLS(t, title, content) ==
  processTimelineQueue(enqueue(t, title, content))

\* ---------------------------------------------------------------- messages

\* A QueryResponse, reduced to what the screens read: the report, the preview
\* of metadata.data_analysis_summary and the summary line built from
\* metadata.strategy_summary (UNDEFINED when the summary is absent or empty).
PlainResponse ==
  [defined |-> TRUE, report |-> <<"r", " ">>, dataPreview |-> UNDEFINED, summaryLine |-> UNDEFINED]

RichResponse ==
  [defined |-> TRUE, report |-> <<"r">>, dataPreview |-> <<"d">>, summaryLine |-> <<"g">>]

\* data.payload of a `final` message that carries none; also apiResult = null.
NoResponse ==
  [defined |-> FALSE, report |-> UNDEFINED, dataPreview |-> UNDEFINED, summaryLine |-> UNDEFINED]

Responses == {PlainResponse, RichResponse}

\* An oversized timeline content: two paragraphs.
LongContent == <<"a", "b", NL, NL, "c">>

Msg(type, title, content, payload) ==
  [type |-> type, title |-> title, content |-> content, payload |-> payload]

\* The inbound frames a socket may deliver.  "malformed" is a frame that
\* JSON.parse rejects, "unknown" a frame with an unrecognised type.
Msgs ==
  { Msg("status", "", <<"s">>, NoResponse),
    Msg("timeline", "phase", UNDEFINED, NoResponse),
    Msg("timeline", "phase", LongContent, NoResponse),
    Msg("error", "", <<"e">>, NoResponse),
    Msg("malformed", "", UNDEFINED, NoResponse),
    Msg("unknown", "", UNDEFINED, NoResponse),
    Msg("final", "", UNDEFINED, NoResponse) }
  \cup { Msg("final", "", UNDEFINED, resp) : resp \in Responses }

\* error.message of a rejected runQuery.
HttpErrorMessage == <<"h">>

\* ---------------------------------------------------------------- sessions

NewSession ==
  [finalReceived |-> FALSE,
   fallbackTriggered |-> FALSE,
   socket |-> "none",      \* none, connecting, open, aborting, closing, failed, closed
   http |-> 0,             \* blocking calls awaiting their response
   sent |-> 0,             \* socket.send calls
   msgs |-> 0,             \* frames delivered to onmessage
   errs |-> 0,             \* onerror events fired
   httpIssued |-> 0,       \* history: blocking calls issued
   applied |-> 0,          \* history: times a final result was applied
   terminal |-> "none",    \* history: the terminal channel message handled (final, error)
   tornDown |-> FALSE,     \* history: the unmount cleanup closed this socket while it was
                           \* open, a reveal was running and no blocking call was pending
   deselected |-> FALSE]   \* history: the user selected another template or topic after
                           \* this request was started

\* The state the handlers read and write, as one value.
Cur ==
  [tl |-> tl, sess |-> sess, wsRef |-> wsRef, isGenerating |-> isGenerating,
   apiResult |-> apiResult, metadataSnapshot |-> metadataSnapshot,
   errorMessage |-> errorMessage, qa |-> qa]

Commit(s) ==
  /\ tl' = s.tl
  /\ sess' = s.sess
  /\ wsRef' = s.wsRef
  /\ isGenerating' = s.isGenerating
  /\ apiResult' = s.apiResult
  /\ metadataSnapshot' = s.metadataSnapshot
  /\ errorMessage' = s.errorMessage
  /\ qa' = s.qa

Ran(op, r, type) ==
  last' = [op |-> op, r |-> r, type |-> type,
           preFinal |-> IF r \in Requests THEN sess[r].finalReceived ELSE FALSE,
           preFallback |-> IF r \in Requests THEN sess[r].fallbackTriggered ELSE FALSE]

\* pushTimelineEvent of the current screen
Push(s, name, content) ==
  [s EXCEPT !.tl = IF page = "ResearchLab"
                   THEN pushTimelineEvent(@, Title(name), content)
                   ELSE pushTimelineEventLS(@, Title(name), content)]

\* socket.close() on the socket of request r: an open socket starts its
\* closing handshake, a connecting one is aborted (the browser then fires
\* error and close).
CloseSocket(s, r) ==
  IF s.sess[r].socket = "open" THEN [s EXCEPT !.sess[r].socket = "closing"]
  ELSE IF s.sess[r].socket = "connecting" THEN [s EXCEPT !.sess[r].socket = "aborting"]
  ELSE s

\* if (wsRef.current) { wsRef.current.close(); wsRef.current = null }
ReleaseWsRef(s) ==
  IF s.wsRef # 0 THEN [CloseSocket(s, s.wsRef) EXCEPT !.wsRef = 0] ELSE s

\* The follow-up events applyFinalResponse builds from the metadata.
followUpEvents(response) ==
  (IF Truthy(response.dataPreview)
   THEN <<[title |-> Title("data_done"), content |-> response.dataPreview]>> ELSE <<>>)
  \o
  (IF Truthy(response.summaryLine)
   THEN <<[title |-> Title("strategy_done"), content |-> response.summaryLine]>> ELSE <<>>)

RECURSIVE pushAll(_, _)
pushAll(t, events) ==
  IF events = <<>> THEN t
  ELSE pushAll(enqueue(t, Head(events).title, Head(events).content), Tail(events))

\* ResearchLab.applyFinalResponse for a defined response
applyFinalResponse(s, r, response, completionMessage) ==
  LET s1 == [s EXCEPT !.apiResult = response,
                      !.sess[r].applied = @ + 1,
                      !.metadataSnapshot = [strategy |-> response.summaryLine,
                                            dataAnalysis |-> response.dataPreview]]
      s2 == IF followUpEvents(response) # <<>>
            THEN [s1 EXCEPT !.tl = processTimelineQueue(pushAll(@, followUpEvents(response)))]
            ELSE s1
  IN [Push(s2, "cta_done", completionMessage) EXCEPT !.isGenerating = FALSE]

\* LearningStudio: setTaskResult(response.report.trim()); setMetadata(..);
\* pushTimelineEvent('AI 报告已生成', ..)
applyResultLS(s, r, response, completionMessage) ==
  Push([s EXCEPT !.apiResult = [response EXCEPT !.report = Trim(@)],
                 !.sess[r].applied = @ + 1,
                 !.metadataSnapshot = [strategy |-> response.summaryLine,
                                       dataAnalysis |-> response.dataPreview]],
       "report_done", completionMessage)

\* fallbackToHttp with the fallbackTriggered test left out
fallbackToHttp_NoTriggerGuard(s, r, reason) ==
  IF s.sess[r].finalReceived THEN s
  ELSE LET s1 == [s EXCEPT !.sess[r].fallbackTriggered = TRUE]
           s2 == IF Truthy(reason) THEN Push(s1, "switch_mode", reason) ELSE s1
       IN [s2 EXCEPT !.sess[r].http = @ + 1, !.sess[r].httpIssued = @ + 1]

\* fallbackToHttp with the finalReceived test left out
fallbackToHttp_NoFinalGuard(s, r, reason) ==
  IF s.sess[r].fallbackTriggered THEN s
  ELSE LET s1 == [s EXCEPT !.sess[r].fallbackTriggered = TRUE]
           s2 == IF Truthy(reason) THEN Push(s1, "switch_mode", reason) ELSE s1
       IN [s2 EXCEPT !.sess[r].http = @ + 1, !.sess[r].httpIssued = @ + 1]

\* fallbackToHttp(reason) up to its await of runQuery
fallbackToHttp(s, r, reason) ==
  IF s.sess[r].fallbackTriggered \/ s.sess[r].finalReceived THEN s
  ELSE LET s1 == [s EXCEPT !.sess[r].fallbackTriggered = TRUE]
           s2 == IF Truthy(reason) THEN Push(s1, "switch_mode", reason) ELSE s1
       IN [s2 EXCEPT !.sess[r].http = @ + 1, !.sess[r].httpIssued = @ + 1]

\* ------------------------------------------- ResearchLab / LearningStudio

NoMetadata == [strategy |-> UNDEFINED, dataAnalysis |-> UNDEFINED]

\* The events handleGenerate pushes before it opens the channel.
openingEvents(s) ==
  IF page = "ResearchLab"
  THEN Push(Push(Push(Push(s, "prepare", <<"p">>), "data_stage", <<"q">>),
                 "strategy_stage", <<"t">>), "advice_stage", <<"u">>)
  ELSE Push(s, "prepare", <<"p">>)

\* handleGenerate; ctorOk = FALSE is `new WebSocket(..)` throwing.  The
\* button that calls it is disabled while isGenerating / isCalculating.
HandleGenerate(ctorOk) ==
  /\ page \in TimelinePages
  /\ mounted
  /\ ~isGenerating
  /\ nreq < reqLimit
  /\ LET r == nreq + 1
         s1 == ReleaseWsRef(Cur)
         s2 == [s1 EXCEPT !.tl = resetTimeline(@),
                          !.isGenerating = TRUE,
                          !.apiResult = NoResponse,
                          !.metadataSnapshot = IF page = "LearningStudio" THEN NoMetadata ELSE @,
                          !.errorMessage = UNDEFINED]
         s3 == openingEvents(s2)
     IN /\ nreq' = r
        /\ Ran("handleGenerate", r, IF ctorOk THEN "ok" ELSE "throw")
        /\ IF ctorOk
           THEN Commit([s3 EXCEPT !.sess[r].socket = "connecting", !.wsRef = r])
           ELSE Commit(fallbackToHttp(s3, r, <<"n">>))
  /\ UNCHANGED <<page, mounted, reqLimit>>

\* socket.onopen without the socket.send call
SocketOpen_NoSend(r) ==
  /\ page \in TimelinePages
  /\ r <= nreq
  /\ sess[r].socket = "connecting"
  /\ Commit([Push(Cur, "channel_open", <<"o">>) EXCEPT !.sess[r].socket = "open"])
  /\ Ran("onopen", r, "")
  /\ UNCHANGED <<page, mounted, reqLimit, nreq>>

\* socket.onopen
SocketOpen(r) ==
  /\ page \in TimelinePages
  /\ r <= nreq
  /\ sess[r].socket = "connecting"
  /\ Commit([Push(Cur, "channel_open", <<"o">>) EXCEPT !.sess[r].socket = "open",
                                                       !.sess[r].sent = @ + 1])
  /\ Ran("onopen", r, "")
  /\ UNCHANGED <<page, mounted, reqLimit, nreq>>

\* The `final` branch of socket.onmessage.
onFinal(s, r, m) ==
  LET s1 == [s EXCEPT !.sess[r].finalReceived = TRUE, !.sess[r].terminal = "final",
                      !.tl = stopTypewriter(@)]
  IN IF page = "ResearchLab"
     THEN IF m.payload.defined
          THEN CloseSocket(applyFinalResponse(s1, r, m.payload, UNDEFINED), r)
          \* setApiResult(undefined), then response.metadata throws
          ELSE [s1 EXCEPT !.apiResult = NoResponse]
     ELSE IF m.payload.defined
          THEN CloseSocket([applyResultLS(s1, r, m.payload, <<"l">>) EXCEPT !.isGenerating = FALSE], r)
          \* response.report throws
          ELSE s1

\* The `error` branch of socket.onmessage.
onErrorMessage(s, r, m) ==
  CloseSocket([Push([s EXCEPT !.errorMessage = m.content, !.sess[r].terminal = "error"],
                    "request_failed", m.content)
                 EXCEPT !.isGenerating = FALSE], r)

\* socket.onmessage without the finalReceived gate
onmessage_NoFinalGate(s, r, m) ==
  IF m.type = "malformed" THEN s
  ELSE IF m.type = "status" THEN Push(s, "progress", m.content)
  ELSE IF m.type = "timeline" THEN Push(s, m.title, m.content)
  ELSE IF m.type = "final" THEN onFinal(s, r, m)
  ELSE IF m.type = "error" THEN onErrorMessage(s, r, m)
  ELSE s

\* socket.onmessage
onmessage(s, r, m) ==
  IF m.type = "malformed" THEN s
  ELSE IF s.sess[r].finalReceived /\ m.type # "final" /\ m.type # "error" THEN s
  ELSE IF m.type = "status" THEN Push(s, "progress", m.content)
  ELSE IF m.type = "timeline" THEN Push(s, m.title, m.content)
  ELSE IF m.type = "final" THEN onFinal(s, r, m)
  ELSE IF m.type = "error" THEN onErrorMessage(s, r, m)
  ELSE s

SocketMessage(r, m) ==
  /\ page \in TimelinePages
  /\ r <= nreq
  /\ sess[r].socket = "open"
  /\ sess[r].msgs < MaxMsgs
  /\ Commit(onmessage([Cur EXCEPT !.sess[r].msgs = @ + 1], r, m))
  /\ Ran("onmessage", r, m.type)
  /\ UNCHANGED <<page, mounted, reqLimit, nreq>>

\* The socket after it fired an error event: a connection that was not yet
\* established has failed and can only close; an established one may still
\* deliver frames before it closes.
Errored(s, r) ==
  [s EXCEPT !.sess[r].errs = @ + 1,
            !.sess[r].socket = IF @ = "open" THEN "open" ELSE "failed"]

\* socket.onerror
SocketError(r) ==
  /\ page \in TimelinePages
  /\ r <= nreq
  /\ sess[r].socket \in {"connecting", "open", "aborting"}
  /\ sess[r].errs < MaxErrors
  /\ Commit(fallbackToHttp(Errored(Cur, r), r, <<"x">>))
  /\ Ran("onerror", r, "")
  /\ UNCHANGED <<page, mounted, reqLimit, nreq>>

\* socket.onclose
onclose(s, r) ==
  LET s1 == [s EXCEPT !.wsRef = 0]
  IN IF page = "ResearchLab"
     THEN IF ~s1.sess[r].finalReceived THEN fallbackToHttp(s1, r, UNDEFINED) ELSE s1
     ELSE IF ~s1.sess[r].finalReceived /\ ~s1.sess[r].fallbackTriggered
          THEN fallbackToHttp(s1, r, UNDEFINED) ELSE s1

SocketClose(r) ==
  /\ page \in TimelinePages
  /\ r <= nreq
  /\ sess[r].socket \in {"connecting", "open", "aborting", "closing", "failed"}
  /\ Commit(onclose([Cur EXCEPT !.sess[r].socket = "closed"], r))
  /\ Ran("onclose", r, "")
  /\ UNCHANGED <<page, mounted, reqLimit, nreq>>

\* fallbackToHttp dropping the response of runQuery
httpResolved_NoApply(s, r, response) ==
  IF page = "ResearchLab"
  THEN [s EXCEPT !.sess[r].finalReceived = TRUE]
  ELSE [s EXCEPT !.isGenerating = FALSE]

\* fallbackToHttp after runQuery resolved with response
httpResolved(s, r, response) ==
  IF page = "ResearchLab"
  THEN applyFinalResponse([s EXCEPT !.sess[r].finalReceived = TRUE], r, response, <<"H">>)
  ELSE [applyResultLS(s, r, response, <<"H">>) EXCEPT !.isGenerating = FALSE]

HttpResolve(r, response) ==
  /\ page \in TimelinePages
  /\ r <= nreq
  /\ sess[r].http > 0
  /\ Commit(httpResolved([Cur EXCEPT !.sess[r].http = @ - 1], r, response))
  /\ Ran("httpResolve", r, "")
  /\ UNCHANGED <<page, mounted, reqLimit, nreq>>

\* fallbackToHttp after runQuery rejected
httpRejected(s, r) ==
  [Push([s EXCEPT !.errorMessage = HttpErrorMessage], "request_failed", HttpErrorMessage)
     EXCEPT !.isGenerating = FALSE]

HttpReject(r) ==
  /\ page \in TimelinePages
  /\ r <= nreq
  /\ sess[r].http > 0
  /\ Commit(httpRejected([Cur EXCEPT !.sess[r].http = @ - 1], r))
  /\ Ran("httpReject", r, "")
  /\ UNCHANGED <<page, mounted, reqLimit, nreq>>

\* A pending scheduler timer fires.
TimerFire(timer) ==
  /\ page \in TimelinePages
  /\ BagIn(timer, tl.timers)
  /\ LET t0 == [tl EXCEPT !.timers = @ (-) SetToBag({timer})]
     IN tl' = IF timer.kind = "switch"
              THEN switchCallback(t0)
              ELSE runTypewriter(t0, timer.index, timer.content)
  /\ Ran("timer", 0, timer.kind)
  /\ UNCHANGED <<page, mounted, reqLimit, nreq, wsRef, isGenerating, apiResult,
                 metadataSnapshot, errorMessage, sess, qa>>

\* The cleanup of the unmount effect.
unmountCleanup(s) ==
  LET s1 == [ReleaseWsRef(s) EXCEPT !.tl = stopTypewriter(@)]
  IN IF page = "LearningStudio"
     THEN [s1 EXCEPT !.tl.timelineQueueRef = <<>>, !.tl.timelineProcessingRef = FALSE]
     ELSE s1

Unmount ==
  /\ page \in TimelinePages
  /\ mounted
  /\ mounted' = FALSE
  /\ Commit([unmountCleanup(Cur) EXCEPT !.sess =
               [r \in Requests |->
                 [@[r] EXCEPT !.tornDown = /\ wsRef = r
                                           /\ sess[r].socket = "open"
                                           /\ sess[r].http = 0
                                           /\ tl.typewriterRef.kind = "type"]]])
  /\ Ran("unmount", 0, "")
  /\ UNCHANGED <<page, reqLimit, nreq>>

\* ----------------------------------------------------------------- QAEngine

\* The assistant placeholder message of one handleSendMessage call.
NoMessage == [exists |-> FALSE, content |-> <<>>, isStreaming |-> FALSE, segments |-> <<>>]

NoQa == [msg |-> [r \in Requests |-> NoMessage], timers |-> {}, batches |-> 0]

QaTimer(kind, r, batch, ord, title, body, target, charPointer) ==
  [kind |-> kind, r |-> r, batch |-> batch, ord |-> ord, title |-> title,
   body |-> body, target |-> target, charPointer |-> charPointer]

\* truncate(text, max) of appendStreamSegment; "~" stands for the ellipsis.
truncate(text) ==
  IF Len(text) <= TruncateMax THEN text
  ELSE TrimEnd(Slice(text, 0, TruncateMax - 1)) \o <<"~">>

\* appendStreamSegment(title, body) for the placeholder of request r
appendStreamSegment(q, r, title, body) ==
  LET finalText == IF Truthy(body) THEN truncate(body) ELSE <<>>
      q1 == [q EXCEPT !.msg[r].segments =
               Append(@, [title |-> title,
                          content |-> IF finalText # <<>> THEN <<>> ELSE UNDEFINED])]
      targetIndex == Len(q1.msg[r].segments)
  IN IF finalText = <<>> THEN q1
     ELSE [q1 EXCEPT !.timers = @ \cup {QaTimer("type", r, 0, 0, title, finalText, targetIndex, 0)}]

\* The closure typewriter() of appendStreamSegment.
typewriter(q, timer) ==
  LET charPointer == timer.charPointer + 1
      q1 == [q EXCEPT !.msg[timer.r].segments[timer.target].content =
               Slice(timer.body, 0, charPointer)]
  IN IF charPointer < Len(timer.body)
     THEN [q1 EXCEPT !.timers = @ \cup {[timer EXCEPT !.charPointer = charPointer]}]
     ELSE q1

\* buildAssistantReply: with metadata.assistant_answer (here: a summary line)
\* the sections are joined, otherwise the report or a placeholder text.
buildAssistantReply(response) ==
  IF Truthy(response.summaryLine)
  THEN [scenario |-> response.dataPreview,
        content |-> Trim((IF Truthy(response.dataPreview) THEN response.dataPreview ELSE <<>>)
                         \o response.summaryLine)]
  ELSE [scenario |-> UNDEFINED,
        content |-> IF Truthy(response.report) THEN response.report ELSE <<"?">>]

\* The reply fetchAssistantAnswerHttp returns when runQuery rejects.
UnavailableReply == [scenario |-> UNDEFINED, content |-> <<"!">>]

\* What fetchAssistantAnswerHttp may resolve with.
QaReplies == {buildAssistantReply(PlainResponse), UnavailableReply}

\* The inbound frames delivered to the QAEngine socket.
QaMsgs ==
  { Msg("status", "", <<"s">>, NoResponse),
    Msg("timeline", "phase", LongContent, NoResponse),
    Msg("error", "", <<"e">>, NoResponse),
    Msg("final", "", UNDEFINED, NoResponse),
    Msg("final", "", UNDEFINED, RichResponse) }

\* The segments handleFinal derives from a reply.
replySegments(reply) ==
  LET segs == (IF Truthy(reply.scenario)
               THEN <<[title |-> "scenario", content |-> reply.scenario]>> ELSE <<>>)
              \o
              (IF Truthy(reply.content)
               THEN <<[title |-> "answer", content |-> reply.content]>> ELSE <<>>)
  IN IF segs = <<>>
     THEN <<[title |-> "answer",
             content |-> IF Truthy(reply.content) THEN reply.content ELSE <<"-">>]>>
     ELSE segs

\* handleFinal(reply): the message is marked and one timer per segment plus
\* the closing timer are armed with increasing delays.
handleFinal(s, r, reply) ==
  LET segs == replySegments(reply)
      batch == s.qa.batches + 1
      armed == { QaTimer("append", r, batch, k, segs[k].title, segs[k].content, 0, 0)
                   : k \in 1 .. Len(segs) }
               \cup { QaTimer("finish", r, batch, Len(segs) + 1, "", <<>>, 0, 0) }
  IN [s EXCEPT !.qa.msg[r].content = <<>>,
               !.qa.msg[r].isStreaming = TRUE,
               !.qa.timers = @ \cup armed,
               !.qa.batches = batch,
               !.sess[r].applied = @ + 1]

\* await fetchAssistantAnswerHttp(question): the call is issued
fetchAssistantAnswerHttp(s, r) ==
  [s EXCEPT !.sess[r].http = @ + 1, !.sess[r].httpIssued = @ + 1]

\* handleSendMessage; ctorOk = FALSE is `new WebSocket(..)` throwing.
QaHandleSendMessage(ctorOk) ==
  /\ page = "QAEngine"
  /\ mounted
  /\ nreq < reqLimit
  /\ LET r == nreq + 1
         s1 == [Cur EXCEPT !.qa.msg[r] = [exists |-> TRUE, content |-> <<>>,
                                          isStreaming |-> TRUE, segments |-> <<>>],
                           !.isGenerating = TRUE]
         s2 == ReleaseWsRef(s1)
     IN /\ nreq' = r
        /\ Ran("handleSendMessage", r, IF ctorOk THEN "ok" ELSE "throw")
        /\ IF ctorOk
           THEN Commit([s2 EXCEPT !.sess[r].socket = "connecting", !.wsRef = r])
           ELSE Commit(fetchAssistantAnswerHttp(s2, r))
  /\ UNCHANGED <<page, mounted, reqLimit>>

\* socket.onopen
QaSocketOpen(r) ==
  /\ page = "QAEngine"
  /\ r <= nreq
  /\ sess[r].socket = "connecting"
  /\ Commit([Cur EXCEPT !.sess[r].socket = "open", !.sess[r].sent = @ + 1])
  /\ Ran("onopen", r, "")
  /\ UNCHANGED <<page, mounted, reqLimit, nreq>>

\* socket.onmessage
qaOnmessage(s, r, m) ==
  IF m.type = "malformed" THEN s
  ELSE IF m.type = "status"
       THEN IF Truthy(m.content)
            THEN [s EXCEPT !.qa = appendStreamSegment(@, r, "status", m.content)] ELSE s
  ELSE IF m.type = "timeline"
       THEN [s EXCEPT !.qa = appendStreamSegment(@, r, m.title, m.content)]
  ELSE IF m.type = "final"
       THEN LET s1 == [s EXCEPT !.sess[r].finalReceived = TRUE, !.sess[r].terminal = "final"]
            IN IF m.payload.defined
               THEN CloseSocket([handleFinal(s1, r, buildAssistantReply(m.payload))
                                   EXCEPT !.isGenerating = FALSE], r)
               \* buildAssistantReply(undefined) throws
               ELSE s1
  ELSE IF m.type = "error"
       THEN CloseSocket([s EXCEPT !.qa = [appendStreamSegment(@, r, "error", m.content)
                                            EXCEPT !.msg[r].content = m.content,
                                                   !.msg[r].isStreaming = FALSE],
                                  !.sess[r].terminal = "error",
                                  !.isGenerating = FALSE], r)
  ELSE s

QaSocketMessage(r, m) ==
  /\ page = "QAEngine"
  /\ r <= nreq
  /\ sess[r].socket = "open"
  /\ sess[r].msgs < MaxMsgs
  /\ Commit(qaOnmessage([Cur EXCEPT !.sess[r].msgs = @ + 1], r, m))
  /\ Ran("onmessage", r, m.type)
  /\ UNCHANGED <<page, mounted, reqLimit, nreq>>

\* socket.onerror up to its await
qaOnerror(s, r) ==
  LET s1 == CloseSocket(s, r)
  IN IF ~s1.sess[r].finalReceived THEN fetchAssistantAnswerHttp(s1, r) ELSE s1

QaSocketError(r) ==
  /\ page = "QAEngine"
  /\ r <= nreq
  /\ sess[r].socket \in {"connecting", "open", "aborting"}
  /\ sess[r].errs < MaxErrors
  /\ Commit(qaOnerror(Errored(Cur, r), r))
  /\ Ran("onerror", r, "")
  /\ UNCHANGED <<page, mounted, reqLimit, nreq>>

\* socket.onclose up to its await
qaOnclose(s, r) ==
  IF ~s.sess[r].finalReceived THEN fetchAssistantAnswerHttp(s, r)
  ELSE [s EXCEPT !.wsRef = 0]

QaSocketClose(r) ==
  /\ page = "QAEngine"
  /\ r <= nreq
  /\ sess[r].socket \in {"connecting", "open", "aborting", "closing", "failed"}
  /\ Commit(qaOnclose([Cur EXCEPT !.sess[r].socket = "closed"], r))
  /\ Ran("onclose", r, "")
  /\ UNCHANGED <<page, mounted, reqLimit, nreq>>

\* The continuation after `await fetchAssistantAnswerHttp(question)` in
\* onerror, onclose and the catch block.
qaHttpSettled(s, r, reply) ==
  [handleFinal(s, r, reply) EXCEPT !.isGenerating = FALSE, !.wsRef = 0]

QaHttpSettle(r, reply) ==
  /\ page = "QAEngine"
  /\ r <= nreq
  /\ sess[r].http > 0
  /\ Commit(qaHttpSettled([Cur EXCEPT !.sess[r].http = @ - 1], r, reply))
  /\ Ran("httpSettle", r, "")
  /\ UNCHANGED <<page, mounted, reqLimit, nreq>>

\* The timers handleFinal arms fire in the order of their delays.
QaDue(timer) ==
  \/ timer.kind = "type"
  \/ ~ \E other \in qa.timers :
          other.kind # "type" /\ other.batch = timer.batch /\ other.ord < timer.ord

QaTimerFire(timer) ==
  /\ page = "QAEngine"
  /\ timer \in qa.timers
  /\ QaDue(timer)
  /\ LET q0 == [qa EXCEPT !.timers = @ \ {timer}]
     IN qa' = IF timer.kind = "type" THEN typewriter(q0, timer)
              ELSE IF timer.kind = "append"
                   THEN appendStreamSegment(q0, timer.r, timer.title, timer.body)
                   ELSE [q0 EXCEPT !.msg[timer.r].isStreaming = FALSE]
  /\ Ran("timer", 0, timer.kind)
  /\ UNCHANGED <<page, mounted, reqLimit, nreq, wsRef, tl, isGenerating, apiResult,
                 metadataSnapshot, errorMessage, sess>>

\* The cleanup of the unmount effect.
QaUnmount ==
  /\ page = "QAEngine"
  /\ mounted
  /\ mounted' = FALSE
  /\ Commit(ReleaseWsRef(Cur))
  /\ Ran("unmount", 0, "")
  /\ UNCHANGED <<page, reqLimit, nreq>>

\* --------------------------------------------------------- specification

\* No handler has run yet.
NoHandler == [op |-> "init", r |-> 0, type |-> "", preFinal |-> FALSE, preFallback |-> FALSE]

InitRest ==
  /\ mounted = TRUE
  /\ nreq = 0
  /\ wsRef = 0
  /\ tl = EmptyTimeline
  /\ isGenerating = FALSE
  /\ apiResult = NoResponse
  /\ metadataSnapshot = NoMetadata
  /\ errorMessage = UNDEFINED
  /\ sess = [r \in Requests |-> NewSession]
  /\ qa = NoQa

\* One request per behaviour.
InitVars ==
  /\ reqLimit = 1
  /\ last = NoHandler
  /\ InitRest

\* ResearchLab and LearningStudio
Init ==
  /\ page \in TimelinePages
  /\ InitVars

Next ==
  \/ \E ctorOk \in BOOLEAN : HandleGenerate(ctorOk)
  \/ \E r \in Requests : SocketOpen(r)
  \/ \E r \in Requests, m \in Msgs : SocketMessage(r, m)
  \/ \E r \in Requests : SocketError(r)
  \/ \E r \in Requests : SocketClose(r)
  \/ \E r \in Requests, response \in Responses : HttpResolve(r, response)
  \/ \E r \in Requests : HttpReject(r)
  \/ \E timer \in BagToSet(tl.timers) : TimerFire(timer)
  \/ Unmount

Spec == Init /\ [][Next]_vars

\* QAEngine
InitQA ==
  /\ page = "QAEngine"
  /\ InitVars

NextQA ==
  \/ \E ctorOk \in BOOLEAN : QaHandleSendMessage(ctorOk)
  \/ \E r \in Requests : QaSocketOpen(r)
  \/ \E r \in Requests, m \in QaMsgs : QaSocketMessage(r, m)
  \/ \E r \in Requests : QaSocketError(r)
  \/ \E r \in Requests : QaSocketClose(r)
  \/ \E r \in Requests, reply \in QaReplies : QaHttpSettle(r, reply)
  \/ \E timer \in qa.timers : QaTimerFire(timer)
  \/ QaUnmount

SpecQA == InitQA /\ [][NextQA]_vars

\* The three screens
InitAll ==
  /\ page \in Pages
  /\ InitVars

NextAll == Next \/ NextQA

SpecAll == InitAll /\ [][NextAll]_vars

\* ResearchLab and LearningStudio with successive requests: the user
\* presses Generate again while the previous request is still under way.
\* The channel delivers a progress frame or the result.
MsgsTwo ==
  { Msg("status", "", <<"s">>, NoResponse),
    Msg("final", "", UNDEFINED, PlainResponse) }

InitTwo ==
  /\ page \in TimelinePages
  /\ reqLimit = MaxRequests
  /\ last = NoHandler
  /\ InitRest

NextTwo ==
  \/ \E ctorOk \in BOOLEAN : HandleGenerate(ctorOk)
  \/ \E r \in Requests : SocketOpen(r)
  \/ \E r \in Requests, m \in MsgsTwo : SocketMessage(r, m)
  \/ \E r \in Requests : SocketError(r)
  \/ \E r \in Requests : SocketClose(r)
  \/ \E r \in Requests : HttpResolve(r, PlainResponse)
  \/ \E r \in Requests : HttpReject(r)
  \/ \E timer \in BagToSet(tl.timers) : TimerFire(timer)

SpecTwo == InitTwo /\ [][NextTwo]_vars

\* The effect on selectedTemplate (ResearchLab) and handleSelectTopic
\* (LearningStudio): the result, the error and the timeline are reset.
handleSelectTopic(s) ==
  [s EXCEPT !.tl = resetTimeline(@),
            !.apiResult = NoResponse,
            !.metadataSnapshot = IF page = "LearningStudio" THEN NoMetadata ELSE @,
            !.errorMessage = UNDEFINED]

\* The user selects another template or topic after the latest request was
\* started (once per request).
SelectTopic ==
  /\ page \in TimelinePages
  /\ mounted
  /\ nreq > 0
  /\ ~sess[nreq].deselected
  /\ Commit([handleSelectTopic(Cur) EXCEPT !.sess[nreq].deselected = TRUE])
  /\ Ran("select", nreq, "")
  /\ UNCHANGED <<page, mounted, reqLimit, nreq>>

\* ResearchLab and LearningStudio, one request, with the user free to select
\* another template or topic while it is under way.
InitSelect == Init

NextSelect == NextTwo \/ SelectTopic

SpecSelect == InitSelect /\ [][NextSelect]_vars

\* ResearchLab, one request whose channel stays up and delivers a status
\* frame, a timeline frame whose content is one paragraph just over the
\* chunk length, and the final frame.
ScenarioContent == [i \in 1 .. TIMELINE_CHUNK_LENGTH + 1 |-> "a"]

ScenarioFrames ==
  << Msg("status", "", <<"s">>, NoResponse),
     Msg("timeline", "phase", ScenarioContent, NoResponse),
     Msg("final", "", UNDEFINED, PlainResponse) >>

\* socket.onmessage on the next frame of the scenario
ScenarioMessage(r) ==
  /\ r <= nreq
  /\ sess[r].socket = "open"
  /\ sess[r].msgs < Len(ScenarioFrames)
  /\ Commit(onmessage([Cur EXCEPT !.sess[r].msgs = @ + 1], r, ScenarioFrames[sess[r].msgs + 1]))
  /\ Ran("onmessage", r, ScenarioFrames[sess[r].msgs + 1].type)
  /\ UNCHANGED <<page, mounted, reqLimit, nreq>>

\* socket.onclose once socket.close() has been called
ScenarioClose(r) ==
  /\ sess[r].socket = "closing"
  /\ SocketClose(r)

InitScenario ==
  /\ page = "ResearchLab"
  /\ InitVars

NextScenario ==
  \/ HandleGenerate(TRUE)
  \/ \E r \in Requests : SocketOpen(r)
  \/ \E r \in Requests : ScenarioMessage(r)
  \/ \E r \in Requests : ScenarioClose(r)
  \/ \E timer \in BagToSet(tl.timers) : TimerFire(timer)

SpecScenario == InitScenario /\ [][NextScenario]_vars

\* pushTimelineEvent on its own: one call on a fresh timeline, with the
\* content drawn from every string over a small alphabet.
ContentAlphabet == {"a", "b", " ", NL}

\* The long contents are drawn over fewer characters.
LongAlphabet == {"a", " ", NL}

Contents ==
  {UNDEFINED}
    \cup UNION { [1 .. n -> ContentAlphabet] : n \in 0 .. MaxContentLen }
    \cup [1 .. LongContentLen -> LongAlphabet]

\* pushTimelineEvent(title, content) for the content drawn by InitSeg
SegPush ==
  /\ last.op = "init"
  /\ tl' = pushTimelineEvent(tl, Title("phase"), last.content)
  /\ last' = [last EXCEPT !.op = "pushTimelineEvent"]
  /\ UNCHANGED <<page, mounted, reqLimit, nreq, wsRef, isGenerating, apiResult,
                 metadataSnapshot, errorMessage, sess, qa>>

InitSeg ==
  /\ page = "ResearchLab"
  /\ reqLimit = 1
  /\ last \in { [op |-> "init", r |-> 0, type |-> "", preFinal |-> FALSE,
                  preFallback |-> FALSE, content |-> content] : content \in Contents }
  /\ InitRest

NextSeg == SegPush

SpecSeg == InitSeg /\ [][NextSeg]_vars

\* The payloads of one user action, as pure functions of what the user has
\* entered.  A JavaScript value that may be undefined is a set: {} is
\* undefined, {v} is the value v.  An object is a set of <<key, value>> pairs.
Queries == {"q1", "q2", "q3"}

\* The id of the selected template or topic ('custom' or one from the backend).
SubjectIds == {"custom", "topic"}

\* The filled-in inputs of the template or of the calculator; possibly none.
InputLists == {<<>>, <<"v">>}

PayloadInputs == [query : Queries, subject : SubjectIds, inputs : InputLists]

\* contextPayload of handleGenerate
contextPayload(input) ==
  IF page = "ResearchLab"
  THEN {<<"template_id", <<input.subject>>>>, <<"inputs", input.inputs>>}
  ELSE (IF input.subject # "" THEN {<<"scenario_id", <<input.subject>>>>} ELSE {})
         \cup (IF Len(input.inputs) # 0 THEN {<<"calculator_inputs", input.inputs>>} ELSE {})

\* The argument of runQuery: httpPayload of handleGenerate, and the literal
\* { query: question } of fetchAssistantAnswerHttp.
httpPayload(input) ==
  IF page = "ResearchLab"
  THEN [query |-> {input.query}, scenarioOverride |-> {"research_lab"},
        context |-> {contextPayload(input)}]
  ELSE IF page = "LearningStudio"
  THEN [query |-> {input.query}, scenarioOverride |-> {"learning_workshop"},
        context |-> IF contextPayload(input) # {} THEN {contextPayload(input)} ELSE {}]
  ELSE [query |-> {input.query}, scenarioOverride |-> {}, context |-> {}]

\* The body runQuery posts.
runQuery(payload) ==
  [query |-> payload.query,
   provider |-> {},
   scenario_override |-> payload.scenarioOverride,
   return_trace |-> {FALSE},
   context |-> payload.context]

\* The object socket.onopen sends: wsPayload of handleGenerate, payload of
\* handleSendMessage.
wsPayload(input) ==
  IF page = "ResearchLab"
  THEN [query |-> {input.query}, scenario_override |-> {"research_lab"},
        context |-> {contextPayload(input)}]
  ELSE IF page = "LearningStudio"
  THEN [query |-> {input.query}, scenario_override |-> {"learning_workshop"},
        context |-> {contextPayload(input)}]
  ELSE [query |-> {input.query}, scenario_override |-> {},
        context |-> {{<<"conversation_mode", <<"qa_engine">>>>}}]

\* socket.onopen: the channel request goes out.
SendWs ==
  /\ last.ws = {} /\ last.http = {}
  /\ last' = [last EXCEPT !.op = "onopen", !.ws = {wsPayload(last.input)}]
  /\ UNCHANGED <<page, mounted, reqLimit, nreq, wsRef, tl, isGenerating, apiResult,
                 metadataSnapshot, errorMessage, sess, qa>>

\* fallbackToHttp / fetchAssistantAnswerHttp: the blocking request goes out,
\* whether or not the channel had opened.
SendHttp ==
  /\ last.http = {}
  /\ last' = [last EXCEPT !.op = "fallbackToHttp",
                          !.http = {runQuery(httpPayload(last.input))}]
  /\ UNCHANGED <<page, mounted, reqLimit, nreq, wsRef, tl, isGenerating, apiResult,
                 metadataSnapshot, errorMessage, sess, qa>>

InitPayload ==
  /\ page \in Pages
  /\ reqLimit = 1
  /\ last \in { [op |-> "init", r |-> 0, type |-> "", preFinal |-> FALSE,
                  preFallback |-> FALSE, input |-> input, ws |-> {}, http |-> {}] :
                input \in PayloadInputs }
  /\ InitRest

NextPayload == SendWs \/ SendHttp

SpecPayload == InitPayload /\ [][NextPayload]_vars

\* ------------------------------------------------------------------ claims

\* The step just taken ran socket.onmessage on a frame of this type.
RanMessage(type) == last'.op = "onmessage" /\ last'.type = type

\* What the user sees and what the scheduler holds.
visibleVars == <<tl, isGenerating, apiResult, metadataSnapshot, errorMessage>>

HttpIssuedUnchanged == \A r \in Requests : sess'[r].httpIssued = sess[r].httpIssued

\* The closure flags and the outstanding blocking calls of every request.
sessFlags ==
  [r \in Requests |-> <<sess[r].finalReceived, sess[r].fallbackTriggered, sess[r].http>>]

\* C1: within one request the final result is applied to the visible state
\* at most once, whatever the order of a channel `final` and the completion
\* of the blocking fallback.
C1_AppliedOnce == \A r \in Requests : sess[r].applied <= 1

\* C2: once fallbackTriggered is set for a request, a `final` frame handled
\* by socket.onmessage leaves the visible result, the queue, the playback
\* state and the flags unchanged.
C2_FinalAfterFallbackIgnored ==
  [][(RanMessage("final") /\ last'.preFallback) => UNCHANGED progVars]_vars

\* C3: an error message and a report result are never shown together.
C3_ErrorXorResult == ~(errorMessage # UNDEFINED /\ apiResult.defined)

\* C4: after a channel `error` frame was handled for a request, no display
\* event is enqueued and no blocking request is issued for it.
C4_ErrorIsTerminal ==
  [][(\E r \in Requests : sess[r].terminal = "error")
       => (tl'.nextId = tl.nextId /\ HttpIssuedUnchanged)]_vars

\* C5: runQuery is issued at most once per handleGenerate call, and an
\* invocation of fallbackToHttp from onerror or onclose that finds
\* fallbackTriggered set changes neither the flags, the outstanding calls,
\* the timeline nor the visible state.
C5_FallbackOnce ==
  /\ [](\A r \in Requests : sess[r].httpIssued <= 1)
  /\ [][(last'.op \in {"onerror", "onclose"} /\ last'.preFallback)
          => UNCHANGED <<visibleVars, sessFlags>>]_vars

C5_Witness ==
  /\ page = "ResearchLab"
  /\ last.op = "onclose" /\ last.preFallback /\ ~last.preFinal
  /\ sess[last.r].httpIssued = 1

\* C6: in QAEngine, when onerror fired with no frame received and onclose
\* followed, exactly one blocking request was issued and its reply is applied
\* at most once.
C6_QaOneFallback ==
  \A r \in Requests :
    (page = "QAEngine" /\ sess[r].msgs = 0 /\ sess[r].errs > 0 /\ sess[r].socket = "closed")
      => (sess[r].httpIssued = 1 /\ sess[r].applied <= 1)

\* C7: after the unmount cleanup nothing mutates the session any more: no
\* timer callback, no enqueue, no visible state change, no blocking request.
C7_NoMutationAfterTeardown ==
  [][(~mounted /\ \E r \in Requests : sess[r].tornDown)
       => (UNCHANGED visibleVars /\ HttpIssuedUnchanged)]_vars

\* C8: once a channel `final` has been applied the scheduler drains: either
\* a scheduler timer is pending or the queue is empty and nothing is being
\* processed (Done).
C8_FinalReachesDone ==
  \A r \in Requests :
    (sess[r].terminal = "final" /\ sess[r].applied > 0)
      => (tl.timers # EmptyBag \/ (tl.timelineQueueRef = <<>> /\ ~tl.timelineProcessingRef))

\* C9: after a channel `final` has set finalReceived for a request, no
\* blocking request is issued for that request.
C9_NoFallbackAfterFinal ==
  [][\A r \in Requests :
       sess[r].terminal = "final" => sess'[r].httpIssued = sess[r].httpIssued]_vars

C9_Witness ==
  \E r \in Requests :
    /\ sess[r].terminal = "final" /\ sess[r].applied = 1
    /\ last.op = "onclose" /\ last.r = r /\ last.preFinal
    /\ sess[r].httpIssued = 0

\* C10: while finalReceived is true, a `status` or `timeline` frame handled
\* by socket.onmessage enqueues nothing and changes no state.
C10_IgnoredAfterFinal ==
  [][((RanMessage("status") \/ RanMessage("timeline")) /\ last'.preFinal)
       => UNCHANGED progVars]_vars

C10_Witness ==
  /\ last.op = "onmessage" /\ last.type \in {"status", "timeline"} /\ last.preFinal
  /\ sess[last.r].msgs > 0

\* C11: when the blocking call issued after a channel failure succeeds and
\* no terminal frame was handled for the request, its continuation applies
\* the response as the result, clears the generating flag and leaves no
\* error message.
C11_FallbackResultApplied ==
  [][(last'.op = "httpResolve" /\ sess[last'.r].terminal = "none")
       => /\ apiResult'.defined
          /\ sess'[last'.r].applied = sess[last'.r].applied + 1
          /\ ~isGenerating'
          /\ errorMessage' = UNDEFINED]_vars

C11_Witness ==
  /\ last.op = "httpResolve"
  /\ sess[last.r].terminal = "none" /\ sess[last.r].errs > 0 /\ sess[last.r].msgs = 0
  /\ apiResult.defined /\ ~isGenerating /\ errorMessage = UNDEFINED

\* C12: events are displayed in enqueue order: the queue is ordered by
\* enqueue time and holds only events newer than the displayed one; a newly
\* displayed event is newer than the one it replaces, none older is left
\* waiting, and while the screen is mounted and the timeline is not reset
\* it is the very next one enqueued.
C12_EnqueueOrder ==
  /\ [](\A i \in 1 .. Len(tl.timelineQueueRef) :
          /\ tl.timelineQueueRef[i].id > tl.currentTimelineEvent.id
          /\ i > 1 => tl.timelineQueueRef[i - 1].id < tl.timelineQueueRef[i].id)
  /\ [][(tl'.currentTimelineEvent.id # tl.currentTimelineEvent.id
          /\ tl'.currentTimelineEvent # NoEvent)
         => /\ tl'.currentTimelineEvent.id > tl.currentTimelineEvent.id
            /\ \A i \in 1 .. Len(tl'.timelineQueueRef) :
                 tl'.timelineQueueRef[i].id > tl'.currentTimelineEvent.id
            /\ (mounted' /\ tl.currentTimelineEvent # NoEvent /\ last'.op # "handleGenerate")
                 => tl'.currentTimelineEvent.id = tl.currentTimelineEvent.id + 1]_vars

C12_Witness ==
  /\ mounted /\ last.op = "timer" /\ last.type = "switch"
  /\ tl.currentTimelineEvent.id >= 3
  /\ tl.timelineQueueRef # <<>>
  /\ \E r \in Requests : sess[r].msgs > 0

\* The step just taken ran a socket handler or a fallbackToHttp continuation
\* of a request older than the current one.
StaleStep ==
  /\ last'.op \in {"onopen", "onmessage", "onerror", "onclose", "httpResolve", "httpReject"}
  /\ last'.r < nreq

\* C13: once a newer request has started, the handlers and continuations of
\* an older request change neither the timeline, the visible state nor
\* wsRef and issue no blocking request, and at most one socket is open.
C13_PriorSessionDisposed ==
  [][/\ StaleStep => (UNCHANGED <<visibleVars, wsRef>> /\ HttpIssuedUnchanged)
     /\ Cardinality({r \in Requests : sess'[r].socket = "open"}) <= 1]_vars

\* The step just taken ran socket.onmessage on a frame that JSON.parse
\* rejects, on a frame of unknown type, or on a `final` frame whose payload
\* could not be applied.
DroppedFrame ==
  /\ last'.op = "onmessage"
  /\ \/ last'.type \in {"malformed", "unknown"}
     \/ last'.type = "final" /\ sess'[last'.r].applied = sess[last'.r].applied

\* C14: a malformed or unrecognised frame, or a `final` without a usable
\* payload, changes neither the flags, the queue, the scheduler nor the
\* visible state.
C14_MalformedDropped == [][DroppedFrame => UNCHANGED progVars]_vars

\* The step just taken called stopTypewriter or resetTimeline.
StopStep ==
  \/ last'.op \in {"handleGenerate", "unmount"}
  \/ last'.op = "onmessage" /\ last'.type = "final"

\* C15: every callback the browser still holds is the one typewriterRef
\* designates, so stopTypewriter and resetTimeline cancel all of them: after
\* such a call no callback armed before it is pending, and the only callback
\* that ever runs is the one typewriterRef designated.
C15_NoDanglingCallback ==
  /\ [](/\ BagCardinality(tl.timers) <= 1
        /\ \A timer \in BagToSet(tl.timers) : timer = tl.typewriterRef)
  /\ [][/\ last'.op = "timer" => BagIn(tl.typewriterRef, tl.timers)
        /\ (StopStep /\ tl'.typewriterRef = NoTimer) => tl'.timers = EmptyBag]_vars

C15_Witness ==
  /\ last.op = "onmessage" /\ last.type = "final"
  /\ tl.timelineProcessingRef /\ tl.typewriterRef = NoTimer /\ tl.timers = EmptyBag
  /\ tl.currentTimelineEvent # NoEvent
  /\ Len(tl.timelineRenderedContent) < Len(tl.currentTimelineEvent.content)

\* C16: right after the unmount cleanup the channel is closed, no scheduler
\* timer is pending and the display queue is empty.
C16_TeardownComplete ==
  last.op = "unmount"
    => /\ wsRef = 0
       /\ \A r \in Requests : sess[r].socket \notin {"connecting", "open"}
       /\ tl.timers = EmptyBag
       /\ tl.timelineQueueRef = <<>>

\* The scenario has run to its end: every frame was handled, the socket has
\* closed and no scheduler timer is pending.
ScenarioEnded ==
  \E r \in Requests :
    /\ sess[r].msgs = Len(ScenarioFrames)
    /\ sess[r].socket = "closed"
    /\ tl.timers = EmptyBag

\* C17: at the end of the scenario the four opening events, the channel
\* notice, the status event, the two segments of the phase and the completion
\* event have all been enqueued and revealed (the queue is drained and the
\* scheduler idle), the payload is the result, finalReceived is set and no
\* blocking call was issued.
C17_Scenario ==
  ScenarioEnded
    => /\ tl.nextId - 1 = 4 + 1 + 1 + 2 + 1
       /\ tl.timelineQueueRef = <<>> /\ ~tl.timelineProcessingRef
       /\ tl.timelineRenderedContent =
            (IF Truthy(tl.currentTimelineEvent.content)
             THEN tl.currentTimelineEvent.content ELSE <<>>)
       /\ apiResult = PlainResponse /\ ~isGenerating
       /\ \A r \in Requests : r <= nreq => sess[r].finalReceived /\ sess[r].httpIssued = 0

\* The events a single pushTimelineEvent call has enqueued, oldest first
\* (processTimelineQueue has already made the first one current).
Enqueued ==
  IF tl.currentTimelineEvent = NoEvent THEN tl.timelineQueueRef
  ELSE <<tl.currentTimelineEvent>> \o tl.timelineQueueRef

\* pushTimelineEvent has just run on a content longer than the threshold.
Segmented ==
  /\ last.op = "pushTimelineEvent"
  /\ Truthy(last.content) /\ Len(last.content) > TIMELINE_CHUNK_LENGTH

RECURSIVE ConcatContents(_)
ConcatContents(events) ==
  IF events = <<>> THEN <<>> ELSE Head(events).content \o ConcatContents(Tail(events))

\* Whitespace normalisation: the non-whitespace characters, in order.
StripWhitespace(s) == SelectSeq(s, LAMBDA c : ~IsWhitespace(c))

\* C18: the segments enqueued for an oversized content, concatenated in
\* order, carry exactly the non-whitespace characters of the content, in
\* the same order.
C18_RoundTrip ==
  Segmented => StripWhitespace(ConcatContents(Enqueued)) = StripWhitespace(last.content)

C18_Witness ==
  /\ Segmented /\ Len(Enqueued) >= 2
  /\ StripWhitespace(last.content) = <<"a", "b", "b", "a">>
  /\ ConcatContents(Enqueued) = <<"a", "b", "b", "a">>

\* C19: every segment enqueued for an oversized content is at most
\* TIMELINE_CHUNK_LENGTH long and has no leading or trailing whitespace.
C19_SegmentBounded ==
  Segmented
    => \A i \in 1 .. Len(Enqueued) :
         /\ Len(Enqueued[i].content) <= TIMELINE_CHUNK_LENGTH
         /\ Trim(Enqueued[i].content) = Enqueued[i].content

C19_Witness ==
  /\ Segmented
  /\ IsWhitespace(Head(last.content)) /\ IsWhitespace(last.content[Len(last.content)])
  /\ \E i \in 1 .. Len(Enqueued) : Len(Enqueued[i].content) = TIMELINE_CHUNK_LENGTH - 1

\* C20: for a content that is absent, empty or only whitespace exactly one
\* event is enqueued; it carries the title and no content to reveal.
C20_BlankContent ==
  (last.op = "pushTimelineEvent" /\ (last.content = UNDEFINED \/ Trim(last.content) = <<>>))
    => /\ Len(Enqueued) = 1
       /\ Enqueued[1].title = Title("phase")
       /\ ~Truthy(Enqueued[1].content)

\* The content the scheduler has to reveal for the current event.
CurrentContent ==
  IF Truthy(tl.currentTimelineEvent.content) THEN tl.currentTimelineEvent.content ELSE <<>>

\* C21: the reveal of an event is paced by its own length only: the pending
\* character tick with index i belongs to the current event and finds exactly
\* i characters revealed, the switch delay is armed only once the whole
\* content is revealed, a running reveal is left only when the switch
\* delay expires, and a handler that neither stops nor resets the scheduler
\* leaves the running reveal as it is.
C21_Pacing ==
  /\ [](\A timer \in BagToSet(tl.timers) :
          /\ timer.kind = "type"
               => /\ timer.content = CurrentContent
                  /\ timer.index = Len(tl.timelineRenderedContent)
                  /\ timer.index < Len(CurrentContent)
          /\ timer.kind = "switch" => tl.timelineRenderedContent = CurrentContent)
  /\ [][/\ (tl.timers # EmptyBag
             /\ tl'.currentTimelineEvent # tl.currentTimelineEvent /\ ~StopStep)
            => (last'.op = "timer" /\ last'.type = "switch")
        /\ (tl.timers # EmptyBag /\ last'.op # "timer" /\ ~StopStep)
            => /\ tl'.timers = tl.timers
               /\ tl'.timelineRenderedContent = tl.timelineRenderedContent
               /\ tl'.currentTimelineEvent = tl.currentTimelineEvent]_vars

C21_Witness ==
  /\ BagIn(SwitchTimer, tl.timers)
  /\ Len(tl.timelineRenderedContent) >= 2
  /\ tl.timelineRenderedContent = CurrentContent
  /\ tl.timelineQueueRef # <<>>
  /\ last.op = "timer" /\ last.type = "type"

\* C26: the scheduler is a single loop: at most one timer is pending, a
\* pending timer means an event is being processed, and a pending character
\* tick belongs to the current event.
C26_SingleLoop ==
  /\ BagCardinality(tl.timers) <= 1
  /\ tl.timers # EmptyBag
       => /\ tl.timelineProcessingRef
          /\ tl.currentTimelineEvent # NoEvent
          /\ \A timer \in BagToSet(tl.timers) :
               timer.kind = "type" => timer.content = tl.currentTimelineEvent.content

C26_Witness ==
  /\ BagCardinality(tl.timers) = 1
  /\ Len(tl.timelineQueueRef) >= 2
  /\ last.op = "onmessage" /\ last.type = "timeline"
  /\ tl.timelineProcessingRef

\* C30: the rendered content is a prefix of the current event's content, a
\* character tick adds exactly one character, and the rendered content is
\* empty when another event becomes current or the timeline is reset.
C30_RenderedPrefix ==
  /\ [](/\ Len(tl.timelineRenderedContent) <= Len(CurrentContent)
        /\ tl.timelineRenderedContent
             = SubSeq(CurrentContent, 1, Len(tl.timelineRenderedContent)))
  /\ [][/\ (last'.op = "timer" /\ last'.type = "type")
            => Len(tl'.timelineRenderedContent) = Len(tl.timelineRenderedContent) + 1
        /\ tl'.currentTimelineEvent # tl.currentTimelineEvent
            => tl'.timelineRenderedContent = <<>>]_vars

C30_Witness ==
  /\ last.op = "timer" /\ last.type = "type"
  /\ Len(tl.timelineRenderedContent) = 1
  /\ Len(CurrentContent) = 2

\* The blocking call of request r was issued, has resolved and its response
\* was applied; no terminal frame was handled.
FallbackSucceeded(r) ==
  /\ sess[r].httpIssued > 0 /\ sess[r].http = 0
  /\ sess[r].applied > 0 /\ sess[r].terminal = "none"

\* C22: once the blocking fallback has succeeded, finalReceived is set for
\* the request and a `status` or `timeline` frame that still arrives changes
\* nothing.
C22_FallbackMarksFinal ==
  [][((RanMessage("status") \/ RanMessage("timeline")) /\ FallbackSucceeded(last'.r))
       => (last'.preFinal /\ UNCHANGED progVars)]_vars

\* C24: the request is sent exactly once per opened socket: an open socket
\* has sent one payload, no socket ever sends a second one, and only onopen
\* sends.
C24_SentOnce ==
  /\ [](\A r \in Requests :
          /\ sess[r].sent <= 1
          /\ sess[r].socket \in {"open", "closing"} => sess[r].sent = 1)
  /\ [][\A r \in Requests :
          sess'[r].sent # sess[r].sent => (last'.op = "onopen" /\ last'.r = r)]_vars

C24_Witness ==
  \E r \in Requests :
    /\ sess[r].sent = 1 /\ sess[r].msgs = MaxMsgs
    /\ sess[r].socket = "closed" /\ sess[r].finalReceived

\* C25: right after a terminal failure was handled (an `error` frame or a
\* rejected blocking call) no scheduler timer is pending.
C25_FailureStopsScheduler ==
  (last.op = "httpReject" \/ (last.op = "onmessage" /\ last.type = "error"))
    => tl.timers = EmptyBag

\* C27: in QAEngine at most one segment of an assistant message is being
\* revealed at a time, and no reveal timer is pending for a message that is
\* no longer streaming or after the component was unmounted.
C27_QaOneRevealAtATime ==
  \A r \in Requests :
    LET reveals == {timer \in qa.timers : timer.kind = "type" /\ timer.r = r}
    IN /\ Cardinality(reveals) <= 1
       /\ (~qa.msg[r].isStreaming \/ ~mounted) => reveals = {}

\* The reference greedy segmenter.  Paragraphs are the non-empty pieces
\* between blank lines.
RefParagraphs(content) == SelectSeq(SplitParagraphs(content), LAMBDA para : para # <<>>)

RECURSIVE RefJoin(_)
RefJoin(paragraphs) ==
  IF Len(paragraphs) = 1 THEN Head(paragraphs)
  ELSE Head(paragraphs) \o <<NL, NL>> \o RefJoin(Tail(paragraphs))

\* Consecutive windows of exactly the threshold length, the last possibly shorter.
RECURSIVE RefWindows(_)
RefWindows(para) ==
  IF Len(para) <= TIMELINE_CHUNK_LENGTH THEN <<para>>
  ELSE <<SubSeq(para, 1, TIMELINE_CHUNK_LENGTH)>>
         \o RefWindows(SubSeq(para, TIMELINE_CHUNK_LENGTH + 1, Len(para)))

RefFlush(acc) == IF acc = <<>> THEN <<>> ELSE <<RefJoin(acc)>>

\* acc is the buffer: the paragraphs accumulated so far.
RECURSIVE RefGreedy(_, _)
RefGreedy(paragraphs, acc) ==
  IF paragraphs = <<>> THEN RefFlush(acc)
  ELSE LET para == Head(paragraphs)
       IN IF Len(RefJoin(Append(acc, para))) <= TIMELINE_CHUNK_LENGTH
          THEN RefGreedy(Tail(paragraphs), Append(acc, para))
          ELSE RefFlush(acc)
                 \o (IF Len(para) <= TIMELINE_CHUNK_LENGTH
                     THEN RefGreedy(Tail(paragraphs), <<para>>)
                     ELSE RefWindows(para) \o RefGreedy(Tail(paragraphs), <<>>))

\* The text of a segment is trimmed and a blank segment is not a segment.
ReferenceSegments(content) ==
  SelectSeq([i \in 1 .. Len(RefGreedy(RefParagraphs(content), <<>>)) |->
               Trim(RefGreedy(RefParagraphs(content), <<>>)[i])],
            LAMBDA segment : segment # <<>>)

\* C28: the contents enqueued for an oversized content are the segments of
\* the reference greedy algorithm, in order.
C28_MatchesReference ==
  Segmented
    => [i \in 1 .. Len(Enqueued) |-> Enqueued[i].content] = ReferenceSegments(last.content)

\* C29: the segments of one oversized content are enqueued in one step with
\* consecutive ids; the first carries the title unchanged and the segment
\* with ordinal k >= 1 the continuation suffix k + 1.
C29_SegmentTitles ==
  Segmented
    => \A i \in 1 .. Len(Enqueued) :
         /\ Enqueued[i].id = i
         /\ Enqueued[i].title = [name |-> "phase", cont |-> IF i = 1 THEN 0 ELSE i]

C29_Witness ==
  /\ Segmented /\ Len(Enqueued) = 3
  /\ Enqueued[3].title = [name |-> "phase", cont |-> 3]
  /\ tl.currentTimelineEvent.title = Title("phase")

\* Both requests of the user action have gone out.
BothSent == last.ws # {} /\ last.http # {}

SentWs == CHOOSE body \in last.ws : TRUE

SentHttp == CHOOSE body \in last.http : TRUE

\* C23: the blocking request carries the same query, the same scenario hint
\* and the same context object as the channel request of the same action.
C23_SamePayload ==
  BothSent
    => /\ SentHttp.query = SentWs.query
       /\ SentHttp.scenario_override = SentWs.scenario_override
       /\ SentHttp.context = SentWs.context

\* The current event has no content to reveal.
LabelOnly(t) ==
  t.currentTimelineEvent # NoEvent /\ ~Truthy(t.currentTimelineEvent.content)

\* C31: an event without content occupies a pacing slot: when it becomes
\* current the fixed delay is armed and nothing else, it is shown with empty
\* rendered content and never has a character tick, and while its delay is
\* pending only the expiry of that delay advances the scheduler.
C31_LabelOnlySlot ==
  /\ [](LabelOnly(tl)
          => /\ tl.timelineRenderedContent = <<>>
             /\ \A timer \in BagToSet(tl.timers) : timer = SwitchTimer)
  /\ [][/\ (LabelOnly(tl') /\ tl'.currentTimelineEvent # tl.currentTimelineEvent)
            => tl'.timers = SetToBag({SwitchTimer})
        /\ (LabelOnly(tl) /\ tl.timers # EmptyBag
             /\ tl'.currentTimelineEvent # tl.currentTimelineEvent /\ ~StopStep)
            => (last'.op = "timer" /\ last'.type = "switch")]_vars

C31_Witness ==
  /\ LabelOnly(tl)
  /\ tl.timers = SetToBag({SwitchTimer})
  /\ tl.timelineQueueRef # <<>>
  /\ last.op = "onmessage"

\* C32: while the component is mounted, timelineProcessingRef is true only
\* while a scheduler timer is pending, so a non-empty queue is always going
\* to be served: the scheduler never stalls.
C32_NeverStalls ==
  (mounted /\ tl.timelineProcessingRef) => tl.timers # EmptyBag

\* Request r has run to its end: its socket has closed (or was never
\* created and the blocking call was issued instead) and no blocking call is
\* awaiting its response, so no handler of the request is left to run.
Settled(r) ==
  /\ r <= nreq
  /\ \/ sess[r].socket = "closed"
     \/ sess[r].socket = "none" /\ sess[r].httpIssued > 0
  /\ sess[r].http = 0

\* C33: every request terminates: once the socket of the latest
\* handleGenerate call has closed and its blocking call, if any, has
\* settled, the generating flag is false.
C33_RequestTerminates ==
  (nreq > 0 /\ Settled(nreq)) => ~isGenerating

\* The step just taken ran a socket handler or a fallbackToHttp continuation
\* of a request made for an item the user has since deselected.
DeselectedStep ==
  /\ last'.op \in {"onopen", "onmessage", "onerror", "onclose", "httpResolve", "httpReject"}
  /\ sess[last'.r].deselected

\* C34: once the user has selected another template or topic, the request
\* made for the previous one shows nothing any more: its handlers enqueue no
\* display event and set neither the result nor the error.
C34_SelectionNotUndone ==
  [][DeselectedStep => UNCHANGED <<tl, apiResult, errorMessage>>]_vars

====
